---- MODULE Spec2Model ----
(***************************************************************************)
(* Model of PyThor (src/pythor/pythor.py): a host-side client of the ODIN  *)
(* download-mode protocol.  One PyThor object, one caller, no concurrency. *)
(* Every public method is an operation; an operation advances one          *)
(* transport call (dev.write / dev.read) per step, pc naming the call the  *)
(* method is about to make.  The device and the USB layer are the          *)
(* environment: each transport call succeeds or raises, and each reply     *)
(* carries data the device chooses.                                        *)
(***************************************************************************)
EXTENDS Integers, Sequences, FiniteSets, TLC

VARIABLES
    dev,              \* self.dev: TRUE = a device handle, FALSE = None
    session_started,  \* self.session_started
    t_flash_enabled,  \* self.t_flash_enabled
    flashpacketsize,  \* self.flashpacketsize (NoSize = still the type `int`)
    sequencesize,     \* self.sequencesize    (NoSize = still the type `int`)
    partitions,       \* self.partitions: name -> entry
    pc,               \* the transport call the running method makes next;
                      \* "idle" between calls, "returned" when a call has ended
    loc,              \* arguments and local variables of the running method
    err,              \* "none" while running, then "ok" or the exception raised
    wire,             \* transport calls of the current / last operation, in order
    pre,              \* the object's fields when the operation was called
    unacked,          \* a frame went out and no read has returned since
    handshaken,       \* some begin_session read "LOKE" or was called with resume
    fault             \* the USB exception dev.write / dev.read raised in the
                      \* latest step; "none" when it made no call or the call returned

vars == <<dev, session_started, t_flash_enabled, flashpacketsize, sequencesize,
          partitions, pc, loc, err, wire, pre, unacked, handshaken, fault>>

fields == <<dev, session_started, t_flash_enabled, flashpacketsize, sequencesize,
            partitions>>

----------------------------------------------------------------------------
(* Bounds of the model *)

\* largest image length offered to flash, in whole sequences
MaxSeqs == 2

----------------------------------------------------------------------------
(* Program constants *)

NoSize == 0                  \* flashpacketsize / sequencesize before any session
OldPacketSize == 131072
OldSequenceSize == 240
NewPacketSize == 1048576
NewSequenceSize == 30
PitBlock == 500
PitMagic == 305436790        \* 0x12349876
PitHeaderLen == 28
PitEntryLen == 132
PitEntryInts == 36           \* the nine integers an entry starts with

----------------------------------------------------------------------------
(* Frame codec *)

\* bytearray(1024) after pack(v, 4*(k-1), buf) for the k-th value of vals: the
\* ten 32-bit fields at offsets 0..36; every other byte is zero.
Frame(vals) == [k \in 1..10 |-> IF k <= Len(vals) THEN vals[k] ELSE 0]

\* one dev.write(0x1, data) that went out / one dev.read(0x81, 0x1000, timeout)
W(kind, data) == [t |-> "w", k |-> kind, f |-> data]
R(res, data) == [t |-> "r", k |-> res, f |-> data]
Cmd(vals) == W("cmd", Frame(vals))

Odin == <<79, 68, 73, 78>>   \* "ODIN"
Loke == <<76, 79, 75, 69>>   \* "LOKE"

\* bytes.decode("utf-8") succeeds.  The replies of the model hold ASCII bytes
\* and the byte 0xFF only, and 0xFF occurs in no UTF-8 text.
Utf8Decodable(b) == \A n \in DOMAIN b : b[n] < 128

----------------------------------------------------------------------------
(* The environment: what the USB layer and the device may answer *)

\* dev.write / dev.read return, or raise USBTimeoutError or another USBError
TransportResults == {"ok", "USBTimeoutError", "USBError"}
UsbErrors == {"USBTimeoutError", "USBError"}

\* replies to "ODIN": "LOKE", "XXXX", a zero-length packet, bytes that are not UTF-8
HandshakeReplies == {Loke, <<88, 88, 88, 88>>, <<>>, <<255, 76, 79, 75>>}

\* byte 6 of the reply to the version probe
VersionReplies == 0..255

----------------------------------------------------------------------------
(* Session state and locals *)

NoLocals ==
    [op |-> "", resume |-> FALSE,
     length |-> 0, entry |-> "", update_bootloader |-> FALSE, efs_clear |-> FALSE,
     version |-> -1, reply |-> <<>>,
     pit |-> 0, size |-> 0, blocks |-> 0, pit_buf |-> <<>>, replies |-> <<>>,
     sequence |-> 0, sequences |-> 0, last_sequence |-> 0,
     i |-> 0, j |-> 0, last |-> "unbound",
     real_size |-> 0, aligned_size |-> 0, parts |-> 0, done |-> <<>>]

\* the fields of the object, as a record
Fields ==
    [dev |-> dev, session_started |-> session_started,
     t_flash_enabled |-> t_flash_enabled, flashpacketsize |-> flashpacketsize,
     sequencesize |-> sequencesize, partitions |-> partitions]

Init ==
    /\ dev = FALSE
    /\ session_started = FALSE
    /\ t_flash_enabled = FALSE
    /\ flashpacketsize = NoSize
    /\ sequencesize = NoSize
    /\ partitions = <<>>
    /\ pc = "idle"
    /\ loc = NoLocals
    /\ err = "none"
    /\ wire = <<>>
    /\ pre = Fields
    /\ unacked = FALSE
    /\ handshaken = FALSE
    /\ fault = "none"

\* a public method is called with locals l; it runs to its first transport call
Enter(l) ==
    /\ pc = "idle"
    /\ loc' = l
    /\ fault' = "none"
    /\ UNCHANGED <<wire, pre, unacked>>

Call(l, first) == Enter(l) /\ pc' = first /\ err' = "none"

\* the running method returns (e = "ok") or raises e to the caller
Return(e) == pc' = "returned" /\ err' = e

\* the transport calls: a frame goes out, a write raises r, a read ends with
\* result r, none is made
Sent(frame) == wire' = Append(wire, frame) /\ unacked' = TRUE /\ fault' = "none"
Failed(r) == wire' = wire /\ unacked' = unacked /\ fault' = r
Got(r, data) ==
    /\ wire' = Append(wire, R(r, data))
    /\ unacked' = (r # "ok" /\ unacked)
    /\ fault' = IF r = "ok" THEN "none" ELSE r
Quiet == wire' = wire /\ unacked' = unacked /\ fault' = "none"

----------------------------------------------------------------------------
(* PyThor.write, PyThor.read *)

\* the gate without its session check
GateOpenDevOnly == dev

GateOpen == dev /\ session_started

\* the method goes on to its next transport call, or returns when none is left
Goto(next) == pc' = next /\ err' = IF next = "returned" THEN "ok" ELSE err

\* a write that is made again when it raised
write_retry(frame, next) ==
    IF GateOpen
    THEN \E r \in TransportResults :
            IF r = "ok"
            THEN Sent(frame) /\ Goto(next)
            ELSE Failed(r) /\ pc' = pc /\ err' = err
    ELSE Quiet /\ Return("NoSession")

\* self.write(data), then `next` when it returned
write(frame, next) ==
    IF GateOpen
    THEN \E r \in TransportResults :
            IF r = "ok"
            THEN Sent(frame) /\ Goto(next)
            ELSE Failed(r) /\ Return(r)
    ELSE Quiet /\ Return("NoSession")

\* self.read() whose result the method does not look at, then `next`
read(next) ==
    IF GateOpen
    THEN \E r \in TransportResults :
            /\ Got(r, <<>>)
            /\ IF r = "ok" THEN Goto(next) ELSE Return(r)
    ELSE Quiet /\ Return("NoSession")

----------------------------------------------------------------------------
(* connect *)

connect ==
    /\ Enter([NoLocals EXCEPT !.op = "connect"])
    /\ pc' = "returned"
    /\ \E found \in BOOLEAN, configured \in BOOLEAN :
          /\ dev' = found
          /\ err' = IF ~found THEN "DeviceNotFound"
                    ELSE IF configured THEN "ok" ELSE "USBError"
    /\ UNCHANGED <<session_started, t_flash_enabled, flashpacketsize, sequencesize,
                   partitions, handshaken>>

----------------------------------------------------------------------------
(* begin_session *)

ProbeFrame == Cmd(<<100, 0, 65535>>)            \* {0x64, 0x00, 0xFFFF}
PacketSizeFrame(size) == Cmd(<<100, 5, size>>)  \* {0x64, 0x05, flashpacketsize}

\* the sizing with version 1 taken for a new bootloader
SizingForOnlyZero(v) ==
    IF v = 0 THEN <<OldPacketSize, OldSequenceSize>>
             ELSE <<NewPacketSize, NewSequenceSize>>

\* the sizing chosen for bootloader version v: <<flashpacketsize, sequencesize>>
SizingFor(v) ==
    IF v \in {0, 1} THEN <<OldPacketSize, OldSequenceSize>>
                    ELSE <<NewPacketSize, NewSequenceSize>>

\* begin_session that sends "ODIN" on resume too
HandshakeEntryAlwaysOdin(resume) == "bs_odin_w"

\* the first transport call of begin_session(resume)
HandshakeEntry(resume) == IF resume THEN "bs_probe_w" ELSE "bs_odin_w"

\* what the except clause around the "ODIN" exchange does with exception r
HandshakeExcept(r) ==
    IF r = "USBTimeoutError"
    THEN session_started' = FALSE /\ Return("SessionStartError")
    ELSE session_started' = session_started /\ Return(r)

\* the comparison of the reply with "LOKE": "ok" or the exception it raises
HandshakeCheck(reply) ==
    IF ~Utf8Decodable(reply) THEN "UnicodeDecodeError"
    ELSE IF reply # Loke THEN "HandshakeMismatch"
    ELSE "ok"

begin_session ==
    \E resume \in BOOLEAN :
        /\ Call([NoLocals EXCEPT !.op = "begin_session", !.resume = resume],
                HandshakeEntry(resume))
        /\ session_started' = TRUE
        /\ handshaken' = (handshaken \/ resume)
        /\ UNCHANGED <<dev, t_flash_enabled, flashpacketsize, sequencesize, partitions>>

begin_session_odin_write ==
    /\ pc = "bs_odin_w"
    /\ IF GateOpen
       THEN \E r \in TransportResults :
               IF r = "ok"
               THEN /\ Sent(W("raw", Odin))
                    /\ pc' = "bs_odin_r" /\ err' = err
                    /\ session_started' = session_started
               ELSE Failed(r) /\ HandshakeExcept(r)
       ELSE Quiet /\ HandshakeExcept("NoSession")
    /\ UNCHANGED <<dev, t_flash_enabled, flashpacketsize, sequencesize, partitions,
                   loc, pre, handshaken>>

begin_session_odin_read ==
    /\ pc = "bs_odin_r"
    /\ IF GateOpen
       THEN \E r \in TransportResults :
               IF r = "ok"
               THEN \E reply \in HandshakeReplies :
                       /\ Got("ok", reply)
                       /\ loc' = [loc EXCEPT !.reply = reply]
                       /\ session_started' = session_started
                       /\ IF HandshakeCheck(reply) = "ok"
                          THEN pc' = "bs_probe_w" /\ err' = err /\ handshaken' = TRUE
                          ELSE Return(HandshakeCheck(reply)) /\ handshaken' = handshaken
               ELSE /\ Got(r, <<>>)
                    /\ HandshakeExcept(r)
                    /\ UNCHANGED <<loc, handshaken>>
       ELSE Quiet /\ HandshakeExcept("NoSession") /\ UNCHANGED <<loc, handshaken>>
    /\ UNCHANGED <<dev, t_flash_enabled, flashpacketsize, sequencesize, partitions, pre>>

begin_session_probe_write ==
    /\ pc = "bs_probe_w"
    /\ write(ProbeFrame, "bs_probe_r")
    /\ UNCHANGED <<fields, loc, pre, handshaken>>

begin_session_probe_read ==
    /\ pc = "bs_probe_r"
    /\ IF GateOpen
       THEN \E r \in TransportResults :
               IF r = "ok"
               THEN \E v \in VersionReplies \cup {-1} :
                       \* -1: the reply has no byte 6, ret[6] raises IndexError
                       IF v = -1
                       THEN /\ Got("ok", <<>>)
                            /\ Return("IndexError")
                            /\ UNCHANGED <<flashpacketsize, sequencesize, loc>>
                       ELSE /\ Got("ok", <<v>>)
                            /\ loc' = [loc EXCEPT !.version = v]
                            /\ flashpacketsize' = SizingFor(v)[1]
                            /\ sequencesize' = SizingFor(v)[2]
                            /\ pc' = "bs_size_w" /\ err' = err
               ELSE /\ Got(r, <<>>)
                    /\ Return(r)
                    /\ UNCHANGED <<flashpacketsize, sequencesize, loc>>
       ELSE /\ Quiet /\ Return("NoSession")
            /\ UNCHANGED <<flashpacketsize, sequencesize, loc>>
    /\ UNCHANGED <<dev, session_started, t_flash_enabled, partitions, pre, handshaken>>

begin_session_size_write ==
    /\ pc = "bs_size_w"
    /\ write(PacketSizeFrame(flashpacketsize), "bs_size_r")
    /\ UNCHANGED <<fields, loc, pre, handshaken>>

begin_session_size_read ==
    /\ pc = "bs_size_r"
    /\ read("returned")
    /\ UNCHANGED <<fields, loc, pre, handshaken>>

----------------------------------------------------------------------------
(* get_pit, parse_pit, print_pit *)

PitDumpFrame == Cmd(<<101, 1>>)          \* {0x65, 0x01}
PitBlockFrame(i) == Cmd(<<101, 2, i>>)   \* {0x65, 0x02, i}
PitEndFrame == Cmd(<<101, 3>>)           \* {0x65, 0x03}

\* the block count rounded down
PitBlocksFloor(size) == size \div PitBlock

\* math.ceil(size / 500)
PitBlocks(size) == (size + PitBlock - 1) \div PitBlock

Entry(name, binary, device, id) ==
    [Partition |-> name, BinaryType |-> binary, DeviceType |-> device, PartitionID |-> id]

\* The partition tables a device may hold: its size in bytes, its magic, its
\* entries in file order.  1: an empty dump.  2: a table of two blocks with a
\* wrong magic.  3: a table with a regular partition listed twice and a modem.
PitImages ==
    <<[size |-> 0, magic |-> 0, entries |-> <<>>],
      [size |-> PitHeaderLen + 4 * PitEntryLen, magic |-> 0,
       entries |-> <<Entry("BOOT", 0, 2, 1), Entry("RADIO", 1, 2, 11),
                     Entry("EFS", 0, 2, 4), Entry("BOOT", 0, 2, 9)>>],
      [size |-> PitHeaderLen + 3 * PitEntryLen, magic |-> PitMagic,
       entries |-> <<Entry("BOOT", 0, 2, 1), Entry("RADIO", 1, 2, 11),
                     Entry("BOOT", 0, 2, 9)>>]>>

\* A byte of the PIT is written as its position in the device's image, counted
\* from 1, and a byte the device never sent as 0: what matters of a byte is
\* where it came from.

\* bytearray(size)
Zeros(size) == [p \in 1..size |-> 0]

\* the n bytes the device answers to block request i: those of its image from
\* offset i * 500 on
BlockReply(i, n) == [k \in 1..n |-> i * PitBlock + k]

\* the lengths the reply to block request i may have for a PIT of `size`
\* bytes: an empty packet (first block only), the rest of the image up to one
\* block, or one whole block
BlockReplyLens(size, i) ==
    (IF i = 0 THEN {0} ELSE {})
    \cup {IF size - i * PitBlock < PitBlock THEN size - i * PitBlock ELSE PitBlock,
          PitBlock}

\* buf[a:b] = data on a bytearray: the slice is clipped to the buffer, and the
\* buffer grows or shrinks when data has another length than the slice
SliceAssign(buf, a, b, data) ==
    LET start == IF a < Len(buf) THEN a ELSE Len(buf)
        clip == IF b < Len(buf) THEN b ELSE Len(buf)
        stop == IF clip < start THEN start ELSE clip
    IN SubSeq(buf, 1, start) \o data \o SubSeq(buf, stop + 1, Len(buf))

\* bytes from..to-1 of the buffer are there and are those of the device's image
Intact(buf, from, to) ==
    to <= Len(buf) /\ \A p \in (from + 1)..to : buf[p] = p

\* what parse_pit reads from the buffer: the magic, the entry count, entry n
\* (bytes the device never sent read as zeros and an empty name)
MagicRead(buf, img) == IF Intact(buf, 0, 4) THEN img.magic ELSE 0
CountRead(buf, img) == IF Intact(buf, 4, 8) THEN Len(img.entries) ELSE 0
EntryOffset(n) == PitHeaderLen + (n - 1) * PitEntryLen
EntryRead(buf, img, n) ==
    IF Intact(buf, EntryOffset(n), EntryOffset(n) + PitEntryLen)
    THEN img.entries[n] ELSE Entry("", 0, 0, 0)

\* self.partitions[entry["Partition"]] = entry, for the first n entries in order
RECURSIVE StoreEntries(_, _, _)
StoreEntries(parts, entries, n) ==
    IF n = 0 THEN parts
    ELSE LET before == StoreEntries(parts, entries, n - 1)
             e == entries[n]
         IN [name \in DOMAIN before \cup {e.Partition} |->
                IF name = e.Partition THEN e ELSE before[name]]

\* parse_pit(pit): the exception it raises ("ok" for none) and self.partitions
\* after.  struct.unpack raises struct.error where the buffer ends before the
\* integer to read; the entries before that one are stored by then.
parse_pit(parts, buf, img) ==
    IF Len(buf) < 4 THEN [err |-> "struct.error", partitions |-> parts]
    ELSE IF MagicRead(buf, img) # PitMagic
    THEN [err |-> "MagicMismatch", partitions |-> parts]
    ELSE IF Len(buf) < PitHeaderLen THEN [err |-> "struct.error", partitions |-> parts]
    ELSE LET count == CountRead(buf, img)
             entries == [n \in 1..count |-> EntryRead(buf, img, n)]
             whole == {n \in 0..count :
                          \A m \in 1..n : EntryOffset(m) + PitEntryInts <= Len(buf)}
             stored == CHOOSE n \in whole : \A m \in whole : m <= n
         IN [err |-> IF stored < count THEN "struct.error" ELSE "ok",
             partitions |-> StoreEntries(parts, entries, stored)]

\* flash without the lookup of its partition name
FlashLookupUnchecked(parts, name) == Goto("stb_w")

\* what flash does between its PIT check and send_total_bytes: self.partitions[entry]
FlashLookup(parts, name) ==
    IF name \in DOMAIN parts THEN Goto("stb_w") ELSE Return("KeyError")

get_pit ==
    /\ Call([NoLocals EXCEPT !.op = "get_pit"], "pit_init_w")
    /\ UNCHANGED <<fields, handshaken>>

print_pit ==
    /\ Enter([NoLocals EXCEPT !.op = "print_pit"])
    /\ IF partitions = <<>> THEN pc' = "pit_init_w" /\ err' = "none"
                            ELSE Return("ok")
    /\ UNCHANGED <<fields, handshaken>>

get_pit_dump_write ==
    /\ pc = "pit_init_w"
    /\ write(PitDumpFrame, "pit_init_r")
    /\ UNCHANGED <<fields, loc, pre, handshaken>>

get_pit_dump_read ==
    /\ pc = "pit_init_r"
    /\ IF GateOpen
       THEN \E r \in TransportResults :
               IF r = "ok"
               THEN \E p \in (DOMAIN PitImages) \cup {0} :
                       \* 0: a reply under 8 bytes, unpack_from raises struct.error
                       /\ Got("ok", <<>>)
                       /\ IF p = 0
                          THEN Return("struct.error") /\ loc' = loc
                          ELSE /\ loc' = [loc EXCEPT !.pit = p,
                                                     !.size = PitImages[p].size,
                                                     !.blocks = PitBlocks(PitImages[p].size),
                                                     !.pit_buf = Zeros(PitImages[p].size),
                                                     !.i = 0]
                               /\ Goto(IF PitBlocks(PitImages[p].size) > 0
                                       THEN "pit_block_w" ELSE "pit_zlp_r")
               ELSE Got(r, <<>>) /\ Return(r) /\ loc' = loc
       ELSE Quiet /\ Return("NoSession") /\ loc' = loc
    /\ UNCHANGED <<fields, pre, handshaken>>

get_pit_block_write ==
    /\ pc = "pit_block_w"
    /\ write(PitBlockFrame(loc.i), "pit_block_r")
    /\ UNCHANGED <<fields, loc, pre, handshaken>>

\* ret = self.read(), then pit_buf[i * 500 : i * 500 + len(ret)] = ret
get_pit_block_read ==
    /\ pc = "pit_block_r"
    /\ IF GateOpen
       THEN \E r \in TransportResults :
               IF r = "ok"
               THEN \E n \in BlockReplyLens(loc.size, loc.i) :
                       /\ Got("ok", <<>>)
                       /\ loc' = [loc EXCEPT
                              !.pit_buf = SliceAssign(loc.pit_buf, loc.i * PitBlock,
                                                      loc.i * PitBlock + n,
                                                      BlockReply(loc.i, n)),
                              !.replies = Append(loc.replies, n),
                              !.i = loc.i + 1]
                       /\ Goto(IF loc.i + 1 < loc.blocks THEN "pit_block_w"
                                                         ELSE "pit_zlp_r")
               ELSE Got(r, <<>>) /\ Return(r) /\ loc' = loc
       ELSE Quiet /\ Return("NoSession") /\ loc' = loc
    /\ UNCHANGED <<fields, pre, handshaken>>

\* the extra read without its try / except
get_pit_zlp_read_strict ==
    /\ pc = "pit_zlp_r"
    /\ read("pit_end_w")
    /\ UNCHANGED <<fields, loc, pre, handshaken>>

\* try: self.read() except usb.USBError: pass
get_pit_zlp_read ==
    /\ pc = "pit_zlp_r"
    /\ IF GateOpen
       THEN \E r \in TransportResults :
               /\ Got(r, <<>>)
               /\ Goto("pit_end_w")
       ELSE Quiet /\ Return("NoSession")
    /\ UNCHANGED <<fields, loc, pre, handshaken>>

get_pit_end_write ==
    /\ pc = "pit_end_w"
    /\ write(PitEndFrame, "pit_end_r")
    /\ UNCHANGED <<fields, loc, pre, handshaken>>

\* self.read(), self.parse_pit(pit_buf), return pit_buf; print_pit and flash
\* drop the buffer get_pit returns
get_pit_end_read ==
    /\ pc = "pit_end_r"
    /\ IF GateOpen
       THEN \E r \in TransportResults :
               /\ Got(r, <<>>)
               /\ IF r = "ok"
                  THEN LET parsed == parse_pit(partitions, loc.pit_buf, PitImages[loc.pit])
                       IN /\ partitions' = parsed.partitions
                          /\ IF parsed.err # "ok" THEN Return(parsed.err) /\ loc' = loc
                             ELSE IF loc.op = "get_pit" THEN Return("ok") /\ loc' = loc
                             ELSE /\ loc' = [loc EXCEPT !.pit_buf = <<>>, !.replies = <<>>]
                                  /\ IF loc.op = "flash"
                                     THEN FlashLookup(parsed.partitions, loc.entry)
                                     ELSE Return("ok")
                  ELSE Return(r) /\ partitions' = partitions /\ loc' = loc
       ELSE Quiet /\ Return("NoSession") /\ partitions' = partitions /\ loc' = loc
    /\ UNCHANGED <<dev, session_started, t_flash_enabled, flashpacketsize,
                   sequencesize, pre, handshaken>>

----------------------------------------------------------------------------
(* send_total_bytes, flash *)

TotalBytesFrame(size) == Cmd(<<100, 2, size>>)   \* {0x64, 0x02, size}
FlashBeginFrame == Cmd(<<102, 0>>)                \* {0x66, 0x00}
SequenceFrame(aligned) == Cmd(<<102, 2, aligned>>) \* {0x66, 0x02, aligned_size}
DataPacket(size) == W("data", <<size>>)           \* bytearray(flashpacketsize)

Bit(b) == IF b THEN 1 ELSE 0

\* the frame that ends a sequence, for a modem binary and for any other
FinalFrame(e, real_size, last, efs_clear, update_bootloader) ==
    IF e.BinaryType = 1
    THEN Cmd(<<102, 3, 1, real_size, e.BinaryType, e.DeviceType, Bit(last)>>)
    ELSE Cmd(<<102, 3, 0, real_size, e.BinaryType, e.DeviceType, e.PartitionID,
               Bit(last), Bit(efs_clear), Bit(update_bootloader)>>)

\* image lengths offered to flash: empty, around one packet of either size,
\* and around whole sequences (both sizings have 31457280 bytes a sequence)
Lengths ==
    {0, 1, OldPacketSize, OldPacketSize + 1, NewPacketSize + 1}
    \cup {k * OldPacketSize * OldSequenceSize + d : k \in 1..MaxSeqs, d \in {0, 1}}

EntryNames == {"BOOT", "RADIO", "NOPE"}

\* the sequence plan: sequences and last_sequence for a length and a sequence size
Sequences(length, sequence) ==
    IF length % sequence # 0 THEN length \div sequence + 1 ELSE length \div sequence

LastSequence(length, sequence) ==
    IF length % sequence # 0 THEN length % sequence ELSE sequence

\* `if i + 1 == sequences: last = True`: the local `last` after it
LastAfter(i, sequences, last) == IF i + 1 = sequences THEN "True" ELSE last

\* the padding added without the test for an aligned size
AlignedSizeAlwaysPads(real_size, packet) ==
    real_size + (packet - (real_size % packet))

AlignedSize(real_size, packet) ==
    IF real_size % packet # 0 THEN real_size + (packet - (real_size % packet))
                              ELSE real_size

\* the head of `for i in range(sequences)` with locals l, up to the next
\* transport call: the loop is over, or `last` is read unbound, or the
\* sequence header is next
SequenceHead(l) ==
    IF l.i >= l.sequences THEN loc' = l /\ Return("ok")
    ELSE LET last == LastAfter(l.i, l.sequences, l.last) IN
         IF last = "unbound"
         THEN loc' = l /\ Return("UnboundLocalError")
         ELSE LET real == IF last = "True" THEN l.last_sequence ELSE l.sequence IN
              /\ loc' = [l EXCEPT !.last = last, !.real_size = real,
                                  !.aligned_size = AlignedSize(real, flashpacketsize)]
              /\ Goto("fl_hdr_w")

send_total_bytes ==
    \E size \in Lengths :
        /\ Call([NoLocals EXCEPT !.op = "send_total_bytes", !.length = size], "stb_w")
        /\ UNCHANGED <<fields, handshaken>>

flash ==
    \E length \in Lengths, name \in EntryNames,
       update_bootloader \in BOOLEAN, efs_clear \in BOOLEAN :
        /\ Enter([NoLocals EXCEPT !.op = "flash", !.length = length, !.entry = name,
                                  !.update_bootloader = update_bootloader,
                                  !.efs_clear = efs_clear])
        /\ IF partitions = <<>> THEN pc' = "pit_init_w" /\ err' = "none"
                                ELSE FlashLookup(partitions, name)
        /\ UNCHANGED <<fields, handshaken>>

send_total_bytes_write ==
    /\ pc = "stb_w"
    /\ write(TotalBytesFrame(loc.length), "stb_r")
    /\ UNCHANGED <<fields, loc, pre, handshaken>>

send_total_bytes_read ==
    /\ pc = "stb_r"
    /\ read(IF loc.op = "flash" THEN "fl_begin_w" ELSE "returned")
    /\ UNCHANGED <<fields, loc, pre, handshaken>>

flash_begin_write ==
    /\ pc = "fl_begin_w"
    /\ write(FlashBeginFrame, "fl_begin_r")
    /\ UNCHANGED <<fields, loc, pre, handshaken>>

flash_begin_read ==
    /\ pc = "fl_begin_r"
    /\ IF GateOpen
       THEN \E r \in TransportResults :
               /\ Got(r, <<>>)
               /\ IF r # "ok" THEN Return(r) /\ loc' = loc
                  ELSE IF flashpacketsize = NoSize \/ sequencesize = NoSize
                  THEN Return("TypeError") /\ loc' = loc   \* int * int
                  ELSE LET sequence == flashpacketsize * sequencesize IN
                       SequenceHead([loc EXCEPT
                           !.sequence = sequence,
                           !.sequences = Sequences(loc.length, sequence),
                           !.last_sequence = LastSequence(loc.length, sequence),
                           !.i = 0])
       ELSE Quiet /\ Return("NoSession") /\ loc' = loc
    /\ UNCHANGED <<fields, pre, handshaken>>

flash_sequence_write ==
    /\ pc = "fl_hdr_w"
    /\ write(SequenceFrame(loc.aligned_size), "fl_hdr_r")
    /\ UNCHANGED <<fields, loc, pre, handshaken>>

flash_sequence_read ==
    /\ pc = "fl_hdr_r"
    /\ read(IF loc.aligned_size \div flashpacketsize > 0 THEN "fl_pkt_w" ELSE "fl_fin_w")
    /\ loc' = IF pc' = "returned" THEN loc
              ELSE [loc EXCEPT !.parts = loc.aligned_size \div flashpacketsize, !.j = 0]
    /\ UNCHANGED <<fields, pre, handshaken>>

flash_packet_write ==
    /\ pc = "fl_pkt_w"
    /\ write(DataPacket(flashpacketsize), "fl_pkt_r")
    /\ UNCHANGED <<fields, loc, pre, handshaken>>

flash_packet_read ==
    /\ pc = "fl_pkt_r"
    /\ IF GateOpen
       THEN \E r \in TransportResults :
               IF r = "ok"
               THEN \E long \in BOOLEAN :
                       \* ret[4] raises IndexError on a reply under 5 bytes; a
                       \* wrong index is logged and the loop goes on
                       /\ Got("ok", <<>>)
                       /\ IF long
                          THEN /\ loc' = [loc EXCEPT !.j = loc.j + 1]
                               /\ Goto(IF loc.j + 1 < loc.parts THEN "fl_pkt_w"
                                                                ELSE "fl_fin_w")
                          ELSE loc' = loc /\ Return("IndexError")
               ELSE Got(r, <<>>) /\ Return(r) /\ loc' = loc
       ELSE Quiet /\ Return("NoSession") /\ loc' = loc
    /\ UNCHANGED <<fields, pre, handshaken>>

flash_final_write ==
    /\ pc = "fl_fin_w"
    /\ write(FinalFrame(partitions[loc.entry], loc.real_size, loc.last = "True",
                        loc.efs_clear, loc.update_bootloader), "fl_fin_r")
    /\ UNCHANGED <<fields, loc, pre, handshaken>>

flash_final_read ==
    /\ pc = "fl_fin_r"
    /\ IF GateOpen
       THEN \E r \in TransportResults :
               /\ Got(r, <<>>)
               /\ IF r = "ok"
                  THEN SequenceHead([loc EXCEPT
                           !.done = Append(loc.done,
                                           [real_size |-> loc.real_size,
                                            aligned_size |-> loc.aligned_size,
                                            last |-> loc.last = "True"]),
                           !.i = loc.i + 1])
                  ELSE Return(r) /\ loc' = loc
       ELSE Quiet /\ Return("NoSession") /\ loc' = loc
    /\ UNCHANGED <<fields, pre, handshaken>>

----------------------------------------------------------------------------
(* end_session, reboot, shutdown, factory_reset, enable_tflash *)

EndSessionFrame == Cmd(<<103, 0>>)     \* {0x67, 0x00}
RebootFrame == Cmd(<<103, 1>>)         \* {0x67, 0x01}
ShutdownFrame == Cmd(<<103, 3>>)       \* {0x67, 0x03}
FactoryResetFrame == Cmd(<<100, 7>>)   \* {0x64, 0x07}
TFlashFrame == Cmd(<<100, 8>>)         \* {0x64, 0x08}

\* reboot without its end_session
RebootEntrySkipsEnd == "reboot_w"

\* the first transport call of reboot: that of the end_session it calls
RebootEntry == "end_w"

end_session ==
    /\ Call([NoLocals EXCEPT !.op = "end_session"], "end_w")
    /\ UNCHANGED <<fields, handshaken>>

reboot ==
    /\ Call([NoLocals EXCEPT !.op = "reboot"], RebootEntry)
    /\ UNCHANGED <<fields, handshaken>>

shutdown ==
    /\ Call([NoLocals EXCEPT !.op = "shutdown"], "shutdown_w")
    /\ UNCHANGED <<fields, handshaken>>

factory_reset ==
    /\ Call([NoLocals EXCEPT !.op = "factory_reset"], "reset_w")
    /\ UNCHANGED <<fields, handshaken>>

enable_tflash ==
    /\ Call([NoLocals EXCEPT !.op = "enable_tflash"], "tflash_w")
    /\ UNCHANGED <<fields, handshaken>>

\* end_session without the read of its ack
end_session_write_unacked ==
    /\ pc = "end_w"
    /\ write(EndSessionFrame, IF loc.op = "reboot" THEN "reboot_w" ELSE "returned")
    /\ UNCHANGED <<fields, loc, pre, handshaken>>

end_session_write ==
    /\ pc = "end_w"
    /\ write(EndSessionFrame, "end_r")
    /\ UNCHANGED <<fields, loc, pre, handshaken>>

end_session_read ==
    /\ pc = "end_r"
    /\ read(IF loc.op = "reboot" THEN "reboot_w" ELSE "returned")
    /\ UNCHANGED <<fields, loc, pre, handshaken>>

reboot_write ==
    /\ pc = "reboot_w"
    /\ write(RebootFrame, "reboot_r")
    /\ UNCHANGED <<fields, loc, pre, handshaken>>

\* self.read(), then self.dev = None and self.partitions = {}
reboot_read ==
    /\ pc = "reboot_r"
    /\ read("returned")
    /\ dev' = IF err' = "ok" THEN FALSE ELSE dev
    /\ partitions' = IF err' = "ok" THEN <<>> ELSE partitions
    /\ UNCHANGED <<session_started, t_flash_enabled, flashpacketsize, sequencesize,
                   loc, pre, handshaken>>

shutdown_write ==
    /\ pc = "shutdown_w"
    /\ write(ShutdownFrame, "shutdown_r")
    /\ UNCHANGED <<fields, loc, pre, handshaken>>

shutdown_read ==
    /\ pc = "shutdown_r"
    /\ read("returned")
    /\ dev' = IF err' = "ok" THEN FALSE ELSE dev
    /\ partitions' = IF err' = "ok" THEN <<>> ELSE partitions
    /\ UNCHANGED <<session_started, t_flash_enabled, flashpacketsize, sequencesize,
                   loc, pre, handshaken>>

factory_reset_write ==
    /\ pc = "reset_w"
    /\ write(FactoryResetFrame, "reset_r")
    /\ UNCHANGED <<fields, loc, pre, handshaken>>

factory_reset_read ==
    /\ pc = "reset_r"
    /\ read("returned")
    /\ UNCHANGED <<fields, loc, pre, handshaken>>

enable_tflash_write ==
    /\ pc = "tflash_w"
    /\ write(TFlashFrame, "tflash_r")
    /\ UNCHANGED <<fields, loc, pre, handshaken>>

enable_tflash_read ==
    /\ pc = "tflash_r"
    /\ read("returned")
    /\ t_flash_enabled' = IF err' = "ok" THEN TRUE ELSE t_flash_enabled
    /\ UNCHANGED <<dev, session_started, flashpacketsize, sequencesize, partitions,
                   loc, pre, handshaken>>

----------------------------------------------------------------------------
(* Shell.execute_cmd (src/pythor/pythor_cli.py) *)

\* the classes an exception of the model is an instance of: its own class and
\* the bases of it that matter to an except clause.  The errors PyThor raises
\* itself are plain ValueErrors; usb.core.USBTimeoutError derives from
\* usb.core.USBError, UnicodeDecodeError from ValueError, KeyError and
\* IndexError from LookupError, UnboundLocalError from NameError, and
\* struct.error from Exception alone.
Classes(e) ==
    CASE e \in {"NoSession", "SessionStartError", "HandshakeMismatch", "MagicMismatch",
                "DeviceNotFound"} -> {"ValueError"}
      [] e = "UnicodeDecodeError" -> {"UnicodeDecodeError", "ValueError"}
      [] e = "USBTimeoutError" -> {"USBTimeoutError", "USBError"}
      [] e = "USBError" -> {"USBError"}
      [] e = "TypeError" -> {"TypeError"}
      [] e \in {"KeyError", "IndexError"} -> {e, "LookupError"}
      [] e = "UnboundLocalError" -> {"UnboundLocalError", "NameError"}
      [] e = "struct.error" -> {"struct.error"}

\* the except clauses of execute_cmd
ExceptClauses == {"ValueError", "USBTimeoutError", "TypeError", "USBError"}

\* the methods of PyThor the command table of the shell reaches: connect,
\* begin, flashFile, reboot, shutdown, wipe, printPit
ShellCommands ==
    {"connect", "begin_session", "flash", "reboot", "shutdown", "factory_reset",
     "print_pit"}

\* execute_cmd when the method it called ended with e: it returns to the loop
\* of run, or the exception leaves it and the loop
execute_cmd(e) ==
    IF e = "ok" THEN "returns"
    ELSE IF Classes(e) \cap ExceptClauses # {} THEN "returns"
    ELSE "raises"

----------------------------------------------------------------------------

\* the caller has the result of the call and is ready to make another
next_call ==
    /\ pc = "returned"
    /\ pc' = "idle"
    /\ loc' = NoLocals
    /\ err' = "none"
    /\ wire' = <<>>
    /\ pre' = Fields
    /\ fault' = "none"
    /\ UNCHANGED <<fields, unacked, handshaken>>

Next ==
    \/ next_call
    \/ connect
    \/ begin_session
    \/ begin_session_odin_write
    \/ begin_session_odin_read
    \/ begin_session_probe_write
    \/ begin_session_probe_read
    \/ begin_session_size_write
    \/ begin_session_size_read
    \/ get_pit
    \/ print_pit
    \/ get_pit_dump_write
    \/ get_pit_dump_read
    \/ get_pit_block_write
    \/ get_pit_block_read
    \/ get_pit_zlp_read
    \/ get_pit_end_write
    \/ get_pit_end_read
    \/ send_total_bytes
    \/ flash
    \/ send_total_bytes_write
    \/ send_total_bytes_read
    \/ flash_begin_write
    \/ flash_begin_read
    \/ flash_sequence_write
    \/ flash_sequence_read
    \/ flash_packet_write
    \/ flash_packet_read
    \/ flash_final_write
    \/ flash_final_read
    \/ end_session
    \/ end_session_write
    \/ end_session_read
    \/ reboot
    \/ reboot_write
    \/ reboot_read
    \/ shutdown
    \/ shutdown_write
    \/ shutdown_read
    \/ factory_reset
    \/ factory_reset_write
    \/ factory_reset_read
    \/ enable_tflash
    \/ enable_tflash_write
    \/ enable_tflash_read

Spec == Init /\ [][Next]_vars

----------------------------------------------------------------------------
(* Properties *)

Last(s) == s[Len(s)]
Running == pc \notin {"idle", "returned"}
Returned(op) == pc = "returned" /\ loc.op = op

\* this step is a dev.write that went out / a dev.read that was made
WriteStep == Len(wire') = Len(wire) + 1 /\ Last(wire').t = "w"
ReadStep == Len(wire') = Len(wire) + 1 /\ Last(wire').t = "r"

\* the frames written so far, in order
Writes == SelectSeq(wire, LAMBDA e : e.t = "w")

IsPrefix(s, t) == Len(s) <= Len(t) /\ \A n \in DOMAIN s : s[n] = t[n]

\* C1.  Gate: whenever a method is at a call of write or read while
\* session_started is false or there is no device handle, the call raises the
\* "start a session first" error, the method ends there, and nothing is
\* written to or read from the device.
C1_Gate ==
    [][(Running /\ (~dev \/ ~session_started))
         => (pc' = "returned" /\ err' = "NoSession" /\ wire' = wire)]_vars

\* get_pit called with a device connected and no session begun was refused
C1_Witness ==
    /\ Returned("get_pit") /\ err = "NoSession" /\ wire = <<>>
    /\ dev /\ ~session_started

\* C2.  At every operation boundary session_started implies that some
\* begin_session read "LOKE" or was called with resume: a begin_session that
\* fails in its handshake step leaves session_started false.
C2_SessionImpliesHandshake ==
    ~Running /\ session_started => handshaken

\* C3 as stated.  Over any sequence of operations no frame is written while an
\* earlier frame is still without a successfully read ack.
C3_NoPipeliningAcrossOperations ==
    [][WriteStep => ~unacked]_vars

\* C3 as amended.  Within one operation, nested calls included, a frame is written
\* only after the ack of the frame before it was read, and the only read that
\* does not directly follow a write is the extra read of get_pit; a frame goes
\* out over an unacknowledged one only as the first transport call of an
\* operation.
C3_NoPipeliningWithinOperation ==
    [][/\ WriteStep /\ wire # <<>> => ~unacked
       /\ ReadStep /\ (wire = <<>> \/ Last(wire).t = "r") => pc = "pit_zlp_r"]_vars

\* a get_pit whose extra read failed and that went on to write its end frame
C3_Witness ==
    /\ Returned("get_pit") /\ err = "ok" /\ loc.blocks > 0
    /\ \E n \in DOMAIN wire : wire[n].t = "r" /\ wire[n].k # "ok"

\* exceptions that come from the transport or from a reply too short to index
TransportFailures == UsbErrors \cup {"NoSession", "IndexError"}

RECURSIVE SumRealSize(_)
SumRealSize(done) ==
    IF done = <<>> THEN 0 ELSE done[1].real_size + SumRealSize(Tail(done))

\* C4.  Sequence accounting: a flash of L > 0 bytes that no transport failure
\* cuts short processes exactly ceil(L / sequence) sequences, their real_size
\* values sum to L, every sequence but the final one has real_size = sequence,
\* and the final one alone has last = true.
C4_SequenceAccounting ==
    (Returned("flash") /\ loc.length > 0 /\ loc.sequence > 0
        /\ err \notin TransportFailures)
    => LET sequence == flashpacketsize * sequencesize
           count == (loc.length + sequence - 1) \div sequence
       IN /\ Len(loc.done) = count
          /\ SumRealSize(loc.done) = loc.length
          /\ \A n \in 1..(count - 1) :
                loc.done[n].real_size = sequence /\ ~loc.done[n].last
          /\ loc.done[count].last

\* what a written frame is in the order of a flash: a data packet and its
\* size, a finalization frame, or the first three fields of another command
FrameShape(e) ==
    IF e.k = "data" THEN <<-1, e.f[1], 0>>
    ELSE IF e.f[1] = 102 /\ e.f[2] = 3 THEN <<102, 3, 0>>
    ELSE <<e.f[1], e.f[2], e.f[3]>>

\* the frames of the flash proper (those of a PIT download before it left out)
FlashShapes ==
    LET sent == SelectSeq(wire, LAMBDA e : e.t = "w" /\ (e.k = "data" \/ e.f[1] # 101))
    IN [n \in 1..Len(sent) |-> FrameShape(sent[n])]

\* one sequence of real bytes: its header, its packets, its finalization frame
SequenceShapes(real, packet) ==
    LET aligned == ((real + packet - 1) \div packet) * packet
    IN <<<<102, 2, aligned>>>>
       \o [n \in 1..(aligned \div packet) |-> <<-1, packet, 0>>]
       \o <<<<102, 3, 0>>>>

RECURSIVE PlanShapes(_, _, _)
PlanShapes(left, sequence, packet) ==
    IF left = 0 THEN <<>>
    ELSE LET real == IF left > sequence THEN sequence ELSE left
         IN SequenceShapes(real, packet) \o PlanShapes(left - real, sequence, packet)

\* C5.  Flash frame order: a flash of L bytes in which every transport call
\* succeeds writes the total-bytes frame, the flash-begin frame, and then for
\* each of its sequences one header, aligned_size / flash_packet_size data
\* packets and one finalization frame, and returns normally.
C5_FlashFrameOrder ==
    (Returned("flash") /\ loc.sequence > 0 /\ err \notin TransportFailures)
    => /\ err = "ok"
       /\ FlashShapes = <<<<100, 2, loc.length>>, <<102, 0, 0>>>>
                        \o PlanShapes(loc.length, flashpacketsize * sequencesize,
                                      flashpacketsize)

Aligned(real_size, aligned_size) ==
    /\ aligned_size > 0
    /\ aligned_size % flashpacketsize = 0
    /\ aligned_size >= real_size
    /\ aligned_size - real_size < flashpacketsize
    /\ (real_size % flashpacketsize = 0 => aligned_size = real_size)

\* C6.  Alignment: in every sequence of every flash aligned_size is a positive
\* multiple of flash_packet_size, at least real_size and less than one packet
\* above it.
C6_Alignment ==
    /\ pc \in {"fl_hdr_w", "fl_hdr_r", "fl_pkt_w", "fl_pkt_r", "fl_fin_w", "fl_fin_r"}
          => Aligned(loc.real_size, loc.aligned_size)
    /\ \A n \in DOMAIN loc.done : Aligned(loc.done[n].real_size, loc.done[n].aligned_size)

\* a sequence of one packet and one byte, padded to two packets, is being finalized
C6_Witness ==
    /\ pc = "fl_fin_r"
    /\ loc.real_size = flashpacketsize + 1
    /\ loc.aligned_size = 2 * flashpacketsize

\* C7.  Version sizing: once begin_session has read version byte v, the sizing
\* is (131072, 240) for v in {0, 1} and (1048576, 30) for every other byte, and
\* the packet-size frame it then writes carries the chosen flash_packet_size.
C7_VersionSizing ==
    (loc.op = "begin_session" /\ loc.version # -1)
    => /\ loc.version \in 0..255
       /\ <<flashpacketsize, sequencesize>> =
             IF loc.version = 0 \/ loc.version = 1 THEN <<131072, 240>>
                                                   ELSE <<1048576, 30>>
       /\ \A n \in DOMAIN wire :
             (wire[n].t = "w" /\ wire[n].f[1] = 100 /\ wire[n].f[2] = 5)
                => wire[n].f[3] = flashpacketsize
       /\ (pc = "returned" /\ err = "ok")
             => (Last(Writes).f[1] = 100 /\ Last(Writes).f[2] = 5)

\* a session begun on a version 1 bootloader
C7_Witness ==
    /\ Returned("begin_session") /\ err = "ok"
    /\ loc.version = 1 /\ flashpacketsize = 131072 /\ sequencesize = 240

\* the frames begin_session(resume) writes when nothing fails
HandshakeWrites(resume, size) ==
    (IF resume THEN <<>> ELSE <<W("raw", <<79, 68, 73, 78>>)>>)
    \o <<Cmd(<<100, 0, 65535>>), Cmd(<<100, 5, size>>)>>

\* C8.  Handshake order: begin_session writes "ODIN" (only when not resuming),
\* the version probe and the packet-size frame in this order, each write
\* followed by one read; the probe follows "ODIN" only on the reply "LOKE"; a
\* begin_session ends short of the last ack only on a failed transport call, a
\* truncated probe reply or a reply to "ODIN" other than "LOKE", and one that
\* returns normally has written all its frames and read an ack to each.
C8_HandshakeOrder ==
    loc.op = "begin_session"
    => /\ \A n \in DOMAIN wire : wire[n].t = IF n % 2 = 1 THEN "w" ELSE "r"
       /\ IsPrefix(Writes, HandshakeWrites(loc.resume, flashpacketsize))
       /\ (~loc.resume /\ Len(wire) >= 3) => wire[2] = R("ok", <<76, 79, 75, 69>>)
       /\ pc = "returned"
             => err \in {"ok", "SessionStartError", "HandshakeMismatch",
                         "UnicodeDecodeError"} \cup TransportFailures
       /\ (pc = "returned" /\ err \in {"HandshakeMismatch", "UnicodeDecodeError"})
             => (~loc.resume /\ Len(wire) = 2 /\ wire[2].f # <<76, 79, 75, 69>>)
       /\ (pc = "returned" /\ err = "ok")
             => /\ Writes = HandshakeWrites(loc.resume, flashpacketsize)
                /\ Len(wire) = 2 * Len(Writes)
                /\ \A n \in DOMAIN wire : wire[n].t = "r" => wire[n].k = "ok"

\* a resumed session: the probe and the packet-size frame, and no "ODIN"
C8_Witness ==
    /\ Returned("begin_session") /\ err = "ok" /\ loc.resume
    /\ Len(wire) = 4

\* C9.  Handshake mismatch: a begin_session(resume=false) that reads a reply
\* other than "LOKE" to its "ODIN" fails with the "Expected LOKE" error, writes
\* no further frame and leaves flash_packet_size and sequence_size unchanged.
C9_HandshakeMismatch ==
    (loc.op = "begin_session" /\ ~loc.resume /\ Len(wire) >= 2
        /\ wire[2].k = "ok" /\ wire[2].f # <<76, 79, 75, 69>>)
    => /\ pc = "returned" /\ err = "HandshakeMismatch"
       /\ Len(wire) = 2
       /\ flashpacketsize = pre.flashpacketsize
       /\ sequencesize = pre.sequencesize

\* C10.  reboot performs end_session first: the reboot frame is written only
\* as the third transport call, after the end-session frame and its ack; a
\* reboot that ends without having written it failed and left the device
\* handle and the partitions as they were.
C10_RebootAfterEndSession ==
    loc.op = "reboot"
    => /\ \A n \in DOMAIN wire :
             wire[n] = Cmd(<<103, 1>>)
                => n = 3 /\ wire[1] = Cmd(<<103, 0>>) /\ wire[2] = R("ok", <<>>)
       /\ (pc = "returned" /\ Len(wire) < 3)
             => err # "ok" /\ dev = pre.dev /\ partitions = pre.partitions

\* a reboot that went through, on a session that had fetched the PIT
C10_Witness ==
    /\ Returned("reboot") /\ err = "ok" /\ Len(wire) = 4
    /\ pre.partitions # <<>> /\ partitions = <<>> /\ ~dev

\* C11.  Closing paths release state: a reboot or shutdown that has written its
\* power frame ({0x67, 0x01} or {0x67, 0x03}) ends with the device handle
\* released and the partition table empty, whatever the read of the ack gave.
C11_ClosingReleases ==
    (pc = "returned" /\ loc.op \in {"reboot", "shutdown"}
        /\ \E n \in DOMAIN wire : wire[n] \in {Cmd(<<103, 1>>), Cmd(<<103, 3>>)})
    => (~dev /\ partitions = <<>>)

\* the finalization frames written so far, in order
FinalFrames ==
    SelectSeq(wire, LAMBDA e : e.t = "w" /\ e.k = "cmd" /\ e.f[1] = 102 /\ e.f[2] = 3)

\* C12.  Finalization: a flash of L > 0 bytes that no transport failure cuts
\* short writes one finalization frame {0x66, 0x03} per sequence; for a modem
\* (binary_type 1) it carries 1, real_size, binary_type, device_type, is_last
\* at offsets 8..24 and nothing else, otherwise 0, real_size, binary_type,
\* device_type, partition_id, is_last, efs_clear, update_bootloader at offsets
\* 8..36; is_last is 1 in the frame of the final sequence and 0 in the frame
\* of every earlier one.
C12_Finalization ==
    (Returned("flash") /\ loc.length > 0 /\ loc.sequence > 0
        /\ err \notin TransportFailures)
    => LET sequence == flashpacketsize * sequencesize
           count == (loc.length + sequence - 1) \div sequence
           e == partitions[loc.entry]
       IN /\ Len(FinalFrames) = count
          /\ \A n \in 1..Len(FinalFrames) :
                LET is_last == IF n = count THEN 1 ELSE 0
                    real_size == IF n = count THEN loc.length - (count - 1) * sequence
                                              ELSE sequence
                IN FinalFrames[n].f =
                      IF e.BinaryType = 1
                      THEN <<102, 3, 1, real_size, 1, e.DeviceType, is_last, 0, 0, 0>>
                      ELSE <<102, 3, 0, real_size, e.BinaryType, e.DeviceType,
                             e.PartitionID, is_last,
                             Bit(loc.efs_clear), Bit(loc.update_bootloader)>>

\* the frames of a PIT download / every other frame
IsPitFrame(e) == e.t = "w" /\ e.k = "cmd" /\ e.f[1] = 101
IsOtherFrame(e) == e.t = "w" /\ ~IsPitFrame(e)

\* the frames of one whole PIT download of `blocks` blocks
PitWrites(blocks) ==
    <<Cmd(<<101, 1>>)>> \o [i \in 1..blocks |-> Cmd(<<101, 2, i - 1>>)]
                        \o <<Cmd(<<101, 3>>)>>

\* the wire holds a whole PIT download and nothing after the ack of its end frame
PitJustDone ==
    /\ Len(wire) >= 2
    /\ wire[Len(wire) - 1] = Cmd(<<101, 3>>)
    /\ Last(wire) = R("ok", <<>>)

\* C13.  Flash precondition: a flash called with an empty partition table
\* starts with a PIT download and writes no other frame before that download
\* is complete, its end frame acknowledged; a flash whose partition name is no
\* key of partitions (after that download) fails with the lookup error and
\* writes no total-bytes frame, no flash-begin frame and no other 0x66 frame.
C13_FlashPrecondition ==
    loc.op = "flash"
    => /\ (pre.partitions = <<>> /\ wire # <<>>) => wire[1] = Cmd(<<101, 1>>)
       /\ pre.partitions = <<>>
             => LET done == 2 * loc.blocks + 5   \* transport calls of a PIT download
                IN /\ \A n \in DOMAIN wire : n <= done => ~IsOtherFrame(wire[n])
                   /\ Len(wire) > done
                         => /\ wire[done - 1] = Cmd(<<101, 3>>)
                            /\ wire[done] = R("ok", <<>>)
                            /\ SelectSeq(SubSeq(wire, 1, done), IsPitFrame)
                                  = PitWrites(loc.blocks)
       /\ loc.entry \notin DOMAIN partitions
             => /\ pc \in {"idle", "returned", "pit_init_w", "pit_init_r", "pit_block_w",
                           "pit_block_r", "pit_zlp_r", "pit_end_w", "pit_end_r"}
                /\ \A n \in DOMAIN wire : ~IsOtherFrame(wire[n])
                /\ pc = "returned"
                      => (err = "KeyError")
                            = (\/ pre.partitions # <<>>
                               \/ /\ PitJustDone
                                  /\ err \notin {"MagicMismatch", "struct.error"})

\* a flash to a name the freshly downloaded PIT does not hold
C13_Witness ==
    /\ Returned("flash") /\ err = "KeyError"
    /\ pre.partitions = <<>> /\ partitions # <<>>
    /\ loc.entry \notin DOMAIN partitions
    /\ PitJustDone

\* C14.  Sizing is immutable within a session: once flash_packet_size and
\* sequence_size have been assigned, no step of any later operation, a
\* further begin_session included, changes either of them.
C14_SizingImmutable ==
    [][flashpacketsize # NoSize
          => (flashpacketsize' = flashpacketsize /\ sequencesize' = sequencesize)]_vars

\* the operation downloads the PIT: get_pit, or print_pit / flash on an empty table
Downloads == loc.op = "get_pit" \/ (loc.op \in {"print_pit", "flash"} /\ pre.partitions = <<>>)

\* the n-th transport call of a PIT download of `blocks` blocks is e
PitCall(n, blocks, e) ==
    IF n = 1 THEN e = Cmd(<<101, 1>>)
    ELSE IF n = 2 * blocks + 3 THEN e.t = "r"
    ELSE IF n = 2 * blocks + 4 THEN e = Cmd(<<101, 3>>)
    ELSE IF n % 2 = 0 \/ n = 2 * blocks + 5 THEN e.t = "r"
    ELSE e = Cmd(<<101, 2, (n - 3) \div 2>>)

\* parse_pit has run: it changed the table or raised, or get_pit went on past it
Parsed ==
    \/ partitions # pre.partitions
    \/ pc = "returned" /\ err \in {"ok", "MagicMismatch"}
    \/ pc = "returned" /\ err \in {"struct.error", "KeyError"} /\ Len(wire) > 2
    \/ pc \notin {"idle", "returned", "pit_init_w", "pit_init_r", "pit_block_w",
                  "pit_block_r", "pit_zlp_r", "pit_end_w", "pit_end_r"}

\* C15.  PIT download order: for the size S of the dump reply a download
\* writes the dump request, then the block requests 0 .. B-1 with
\* B = ceil(S / 500) in increasing order, each followed by one read, then
\* makes one extra read, then writes the end frame once and reads its ack, each
\* step taken only when the reads before it (the extra one excepted)
\* succeeded; the table is parsed only after the ack of the end frame.
C15_PitOrder ==
    Downloads
    => LET done == 2 * loc.blocks + 5
       IN /\ loc.blocks * 500 >= loc.size /\ loc.blocks * 500 < loc.size + 500
          /\ \A n \in DOMAIN wire : n <= done => PitCall(n, loc.blocks, wire[n])
          /\ \A n \in DOMAIN wire :
                (n <= done /\ n < Len(wire) /\ wire[n].t = "r" /\ n # done - 2)
                   => wire[n].k = "ok"
          /\ loc.op # "flash" => Len(wire) <= done
          /\ Parsed => (Len(wire) >= done /\ wire[done] = R("ok", <<>>))

\* a download of two blocks that ran to its parse, the extra read timing out
C15_Witness ==
    /\ Returned("get_pit") /\ loc.blocks = 2 /\ Len(wire) = 9
    /\ wire[7] = R("USBTimeoutError", <<>>)
    /\ err = "MagicMismatch"

\* C16.  PIT reassembly: once every block reply has been copied, replies of at
\* most 500 bytes each, the buffer get_pit returns has exactly S bytes and
\* holds the bytes of reply i from offset i * 500 on.
C16_Reassembly ==
    (Downloads /\ loc.pit # 0 /\ Len(loc.replies) = loc.blocks
        /\ (loc.op = "get_pit" \/ Running))
    => /\ Len(loc.pit_buf) = loc.size
       /\ \A i \in 0..(loc.blocks - 1) :
             /\ loc.replies[i + 1] <= 500
             /\ \A k \in 1..loc.replies[i + 1] :
                   loc.pit_buf[i * 500 + k] = BlockReply(i, loc.replies[i + 1])[k]

PitLabels ==
    {"pit_init_w", "pit_init_r", "pit_block_w", "pit_block_r", "pit_zlp_r",
     "pit_end_w", "pit_end_r"}

\* a download that ended with its extra read failed and no other call failed
\* has written the end frame, read its ack and parsed the table
ZlpSwallowed ==
    LET done == 2 * loc.blocks + 5
    IN (/\ Downloads /\ pc = "returned"
        /\ Len(wire) >= done - 2 /\ wire[done - 2].k \in UsbErrors
        /\ err \notin UsbErrors)
       => /\ Len(wire) >= done
          /\ wire[done - 1] = Cmd(<<101, 3>>)
          /\ wire[done] = R("ok", <<>>)
          /\ Parsed
          /\ loc.op # "flash" => err \in {"ok", "MagicMismatch", "struct.error"}

\* C17.  ZLP tolerance: a USB error or timeout of the extra read of a PIT
\* download is swallowed, the download goes on to write the end frame, and
\* when nothing else fails it reads the ack, parses the table and returns; a
\* USB error or timeout of any other read or write of the download ends it
\* with that error and with partitions as it was.
C17_ZlpTolerance ==
    [][/\ (pc = "pit_zlp_r" /\ fault' # "none")
             => (pc' = "pit_end_w" /\ err' = "none" /\ partitions' = partitions)
       /\ (pc \in PitLabels \ {"pit_zlp_r"} /\ fault' # "none")
             => (pc' = "returned" /\ err' = fault' /\ partitions' = pre.partitions)
       /\ ZlpSwallowed']_vars

\* a get_pit that filled the table although its extra read raised
C17_Witness ==
    /\ Returned("get_pit") /\ err = "ok" /\ partitions # <<>>
    /\ wire[2 * loc.blocks + 3] = R("USBError", <<>>)
    /\ Len(wire) = 2 * loc.blocks + 5

\* C18.  Error propagation without retry: a step whose dev.write or dev.read
\* raised, the extra read of get_pit excepted, ends the operation with that
\* error (the timeout of the "ODIN" exchange as the session-start error); an
\* operation that has ended makes no transport call, and an end-session frame
\* is only ever written as the first call of end_session or reboot.
C18_NoRetry ==
    [][/\ (fault' # "none" /\ pc # "pit_zlp_r")
             => /\ pc' = "returned"
                /\ err' \in {fault', "SessionStartError"}
                /\ err' = "SessionStartError"
                      => (fault' = "USBTimeoutError" /\ pc \in {"bs_odin_w", "bs_odin_r"})
       /\ pc = "returned" => (pc' = "idle" /\ wire' = <<>>)
       /\ (WriteStep /\ Last(wire') = Cmd(<<103, 0>>))
             => (wire = <<>> /\ loc.op \in {"end_session", "reboot"})]_vars

\* a flash that ended on a data packet whose write raised, packets before it sent
C18_Witness ==
    /\ Returned("flash") /\ err = "USBError" /\ fault = "USBError"
    /\ loc.j >= 1
    /\ Last(wire) = R("ok", <<>>)
    /\ wire[Len(wire) - 1].k = "data"

\* this step is the read of the ack of the end frame followed by parse_pit
ParseStep == pc = "pit_end_r" /\ ReadStep /\ Last(wire').k = "ok"

\* every name of the entries maps to the last entry that carries it
LaterWins(entries, parts) ==
    \A n \in DOMAIN entries :
        (\A m \in DOMAIN entries : m > n => entries[m].Partition # entries[n].Partition)
           => (entries[n].Partition \in DOMAIN parts
               /\ parts[entries[n].Partition] = entries[n])

\* C19.  Partition table updates: partitions gains entries only in the parse
\* step of a PIT download and is otherwise changed only by reboot and
\* shutdown, which empty it; a downloaded PIT that does not start with the
\* magic 0x12349876 makes the parse fail with MagicMismatch and leaves
\* partitions exactly as it was; of two entries with the same name the later
\* one is the one kept.
C19_PartitionUpdates ==
    [][/\ partitions' # partitions
             => \/ (ParseStep /\ Downloads /\ DOMAIN partitions \subseteq DOMAIN partitions')
                \/ (pc \in {"reboot_r", "shutdown_r"} /\ partitions' = <<>>)
       /\ (ParseStep /\ MagicRead(loc.pit_buf, PitImages[loc.pit]) # 305436790)
             => (pc' = "returned" /\ err' = "MagicMismatch" /\ partitions' = partitions)
       /\ (ParseStep /\ MagicRead(loc.pit_buf, PitImages[loc.pit]) = 305436790)
             => LaterWins(PitImages[loc.pit].entries, partitions')]_vars

\* the failures the shell is to survive: no session, a handshake timeout or
\* mismatch, a transport error or timeout, a magic mismatch, a flash to a name
\* the PIT does not hold, any failure inside the flash loop
ListedFailure ==
    \/ err \in {"NoSession", "SessionStartError", "HandshakeMismatch",
                "USBTimeoutError", "USBError", "MagicMismatch"}
    \/ loc.op = "flash" /\ err = "KeyError"
    \/ loc.op = "flash" /\ err # "ok" /\ loc.sequence > 0

\* C20.  Shell robustness: whenever the method behind a command of the shell
\* ends in one of these failures, execute_cmd catches the exception and
\* returns normally, so that the loop of run goes on.
C20_ShellRobust ==
    (pc = "returned" /\ loc.op \in ShellCommands /\ ListedFailure)
    => execute_cmd(err) = "returns"

====
